---------------------------- MODULE Spec2Model ----------------------------
(***************************************************************************)
(* Model of the scan orchestration of the disk virus scanner               *)
(* (src/code/gui.py): the Start/Stop handlers of VirusScannerGUI, the      *)
(* worker thread scan_disk_thread / perform_virus_scan (partition          *)
(* mounting, engine launch, live read loop, post-exit drain, stop          *)
(* procedure, mount cleanup) and the line parser parse_scan_output.        *)
(*                                                                         *)
(* Text is modelled as sequences of one-character strings, so that the     *)
(* parser's substring, prefix, suffix, split and int() steps are computed  *)
(* the way the Python code computes them.                                  *)
(***************************************************************************)
EXTENDS Integers, Sequences, FiniteSets, TLC

(***************************************************************************)
(* Bounds of the model                                                     *)
(***************************************************************************)
\* longest engine output (lines) of a session of the output specification
MaxLines == 2
\* longest engine output (lines) of a session that may mount partitions
MaxBrief == 1
\* most partitions lsblk reports for the selected device
MaxParts == 2
\* the clock int(time.time()) runs from 0 to MaxTime
MaxTime == 1
\* sessions started in one run of the application
MaxSessions == 2
\* injected unmount failures (non-zero status, timeouts) in one run
MaxFaults == 1
\* worker threads the model can represent at once
MaxWorkers == 2

(***************************************************************************)
(* Text helpers (Python str methods used by the parser)                    *)
(***************************************************************************)
Whitespace == {" ", "\t"}

Digits == {"0", "1", "2", "3", "4", "5", "6", "7", "8", "9"}

DigitVal(c) ==
    CASE c = "0" -> 0 [] c = "1" -> 1 [] c = "2" -> 2 [] c = "3" -> 3
      [] c = "4" -> 4 [] c = "5" -> 5 [] c = "6" -> 6 [] c = "7" -> 7
      [] c = "8" -> 8 [] c = "9" -> 9

\* s.startswith(p)
StartsWith(s, p) ==
    /\ Len(p) <= Len(s)
    /\ SubSeq(s, 1, Len(p)) = p

\* s.endswith(p)
EndsWith(s, p) ==
    /\ Len(p) <= Len(s)
    /\ SubSeq(s, Len(s) - Len(p) + 1, Len(s)) = p

\* p in s
Contains(s, p) ==
    \E i \in 1..(Len(s) - Len(p) + 1) : SubSeq(s, i, i + Len(p) - 1) = p

\* s.strip()
Strip(s) ==
    LET keep == {i \in 1..Len(s) : s[i] \notin Whitespace}
    IN  IF keep = {} THEN <<>>
        ELSE LET lo == CHOOSE i \in keep : \A j \in keep : i <= j
                 hi == CHOOSE i \in keep : \A j \in keep : j <= i
             IN  SubSeq(s, lo, hi)

\* s.split(':'), as the sequence of fields
RECURSIVE SplitColon(_)
SplitColon(s) ==
    LET colons == {i \in 1..Len(s) : s[i] = ":"}
    IN  IF colons = {} THEN <<s>>
        ELSE LET k == CHOOSE i \in colons : \A j \in colons : i <= j
             IN  <<SubSeq(s, 1, k - 1)>> \o SplitColon(SubSeq(s, k + 1, Len(s)))

\* the value of a string of decimal digits and underscores
RECURSIVE DigitsValue(_)
DigitsValue(s) ==
    IF s = <<>> THEN 0
    ELSE LET c == s[Len(s)]
             front == SubSeq(s, 1, Len(s) - 1)
         IN  IF c = "_" THEN DigitsValue(front)
             ELSE DigitsValue(front) * 10 + DigitVal(c)

\* int(s): [ok |-> TRUE, val |-> n], or ok = FALSE where Python raises
\* ValueError.  Python accepts surrounding whitespace, one sign, and
\* single underscores between digits.
ParseInt(s) ==
    LET t == Strip(s)
        signed == t # <<>> /\ t[1] \in {"+", "-"}
        body == IF signed THEN SubSeq(t, 2, Len(t)) ELSE t
        wellFormed ==
            /\ body # <<>>
            /\ \A i \in 1..Len(body) : body[i] \in Digits \cup {"_"}
            /\ body[1] \in Digits
            /\ body[Len(body)] \in Digits
            /\ \A i \in 1..(Len(body) - 1) : ~(body[i] = "_" /\ body[i + 1] = "_")
    IN  IF ~wellFormed THEN [ok |-> FALSE, val |-> 0]
        ELSE [ok |-> TRUE,
              val |-> IF signed /\ t[1] = "-" THEN 0 - DigitsValue(body)
                      ELSE DigitsValue(body)]

(***************************************************************************)
(* Markers and labels of parse_scan_output                                 *)
(***************************************************************************)
FOUND_MARK == <<" ","F","O","U","N","D">>
SCANNED_LABEL == <<"S","c","a","n","n","e","d"," ","f","i","l","e","s",":">>
INFECTED_LABEL == <<"I","n","f","e","c","t","e","d"," ","f","i","l","e","s",":">>
COLON_OK == <<":"," ","O","K">>
COLON_EMPTY == <<":"," ","E","m","p","t","y"," ","f","i","l","e">>
SP_OK == <<" ","O","K">>
SP_EMPTY == <<" ","E","m","p","t","y"," ","f","i","l","e">>
SP_EXCLUDED == <<" ","E","x","c","l","u","d","e","d">>
COLON_SP == <<":"," ">>
COLON == <<":">>
SLASH == <<"/">>
\* len(line) > 10
MinPathLen == 10

(***************************************************************************)
(* parse_scan_output: the result record after one output line              *)
(***************************************************************************)
EmptyResults == [scanned |-> 0, infected |-> 0, threats |-> <<>>]

\* the threat branch (lines 764-771)
ThreatBranch(r, line) ==
    [r EXCEPT !.infected = r.infected + 1,
              !.threats = Append(r.threats, line)]

\* mutant: the reported total is added to the inferred one
SummaryValueAdded(current, reported) == current + reported

\* a "Scanned files:" / "Infected files:" summary value applied to the
\* counter (lines 779 and 786)
SummaryValue(current, reported) == reported

\* one counted file (lines 795, 802, 810)
CountFile(r) == [r EXCEPT !.scanned = r.scanned + 1]

\* mutant: the branches do not return, a line is counted by each branch
\* it matches
FileBranchesNoReturn(r, line) ==
    LET first == IF EndsWith(line, COLON_OK) \/ EndsWith(line, COLON_EMPTY)
                 THEN CountFile(r) ELSE r
        second == IF /\ Contains(line, COLON_SP)
                     /\ \/ EndsWith(line, SP_OK)
                        \/ EndsWith(line, SP_EMPTY)
                        \/ EndsWith(line, SP_EXCLUDED)
                  THEN CountFile(first) ELSE first
    IN  IF /\ StartsWith(line, SLASH)
           /\ ~EndsWith(line, COLON)
           /\ ~Contains(line, COLON)
           /\ Len(line) > MinPathLen
        THEN CountFile(second) ELSE second

\* the file branches below the summary block (lines 792-811)
FileBranches(r, line) ==
    IF EndsWith(line, COLON_OK) \/ EndsWith(line, COLON_EMPTY)
    THEN CountFile(r)
    ELSE IF /\ Contains(line, COLON_SP)
            /\ \/ EndsWith(line, SP_OK)
               \/ EndsWith(line, SP_EMPTY)
               \/ EndsWith(line, SP_EXCLUDED)
    THEN CountFile(r)
    ELSE IF /\ StartsWith(line, SLASH)
            /\ ~EndsWith(line, COLON)
            /\ ~Contains(line, COLON)
            /\ Len(line) > MinPathLen
    THEN CountFile(r)
    ELSE r

\* mutant: the summary labels are tested before the infected marker
parse_summary_first(r, output) ==
    LET line == Strip(output)
        field == SplitColon(line)[2]
        n == ParseInt(Strip(field))
    IN  IF line = <<>> THEN r
        ELSE IF Contains(line, COLON) /\ StartsWith(line, SCANNED_LABEL) /\ n.ok
        THEN [r EXCEPT !.scanned = SummaryValue(r.scanned, n.val)]
        ELSE IF Contains(line, COLON) /\ StartsWith(line, INFECTED_LABEL) /\ n.ok
        THEN [r EXCEPT !.infected = SummaryValue(r.infected, n.val)]
        ELSE IF Contains(line, FOUND_MARK) \/ EndsWith(line, FOUND_MARK)
        THEN ThreatBranch(r, line)
        ELSE FileBranches(r, line)

parse_scan_output(r, output) ==
    LET line == Strip(output)
        field == SplitColon(line)[2]
        n == ParseInt(Strip(field))
    IN  IF line = <<>> THEN r
        ELSE IF Contains(line, FOUND_MARK) \/ EndsWith(line, FOUND_MARK)
        THEN ThreatBranch(r, line)
        ELSE IF Contains(line, COLON) /\ StartsWith(line, SCANNED_LABEL) /\ n.ok
        THEN [r EXCEPT !.scanned = SummaryValue(r.scanned, n.val)]
        ELSE IF /\ Contains(line, COLON)
                /\ ~StartsWith(line, SCANNED_LABEL)
                /\ StartsWith(line, INFECTED_LABEL)
                /\ n.ok
        THEN [r EXCEPT !.infected = SummaryValue(r.infected, n.val)]
        ELSE FileBranches(r, line)

\* the line is a summary line whose value int() accepts (lines 776-790)
SummaryLine(line) ==
    /\ Contains(line, COLON)
    /\ StartsWith(line, SCANNED_LABEL) \/ StartsWith(line, INFECTED_LABEL)
    /\ ParseInt(Strip(SplitColon(line)[2])).ok

\* the line carries a summary label and a value int() rejects (lines 781
\* and 789)
MalformedSummary(line) ==
    /\ StartsWith(line, SCANNED_LABEL) \/ StartsWith(line, INFECTED_LABEL)
    /\ ~ParseInt(Strip(SplitColon(line)[2])).ok

\* the line is counted as a scanned file: it reaches line 792 and one of
\* the conditions of lines 793, 799-801 and 806-809 holds
FileOkLine(line) ==
    /\ line # <<>>
    /\ ~Contains(line, FOUND_MARK)
    /\ ~SummaryLine(line)
    /\ \/ EndsWith(line, COLON_OK) \/ EndsWith(line, COLON_EMPTY)
       \/ /\ Contains(line, COLON_SP)
          /\ EndsWith(line, SP_OK) \/ EndsWith(line, SP_EMPTY) \/ EndsWith(line, SP_EXCLUDED)
       \/ /\ StartsWith(line, SLASH)
          /\ ~EndsWith(line, COLON)
          /\ ~Contains(line, COLON)
          /\ Len(line) > MinPathLen

\* the lines of a buffer applied in order
RECURSIVE ParseAll(_, _)
ParseAll(r, lines) ==
    IF lines = <<>> THEN r
    ELSE ParseAll(parse_scan_output(r, Head(lines)), Tail(lines))

\* the result after each line of a buffer, in order
RECURSIVE ParseTrail(_, _)
ParseTrail(r, lines) ==
    IF lines = <<>> THEN <<>>
    ELSE <<parse_scan_output(r, Head(lines))>>
            \o ParseTrail(parse_scan_output(r, Head(lines)), Tail(lines))

(***************************************************************************)
(* Engine output: the lines clamscan may print                             *)
(***************************************************************************)
LineOk == <<"/","a","/","b","/","c",":"," ","O","K">>
LineFound == <<"e","i","c","a","r",".","c","o","m",":"," ","W","i","n",".","T","e","s","t",".","E","I","C","A","R","_","H","D","B","-","1"," ","F","O","U","N","D">>
LineExcluded == <<"/","a","/","b","/","d",":"," ","E","x","c","l","u","d","e","d">>
LineScanned0 == <<"S","c","a","n","n","e","d"," ","f","i","l","e","s",":"," ","0">>
LineScanned10 == <<"S","c","a","n","n","e","d"," ","f","i","l","e","s",":"," ","1","0">>
LineScanned12 == <<"S","c","a","n","n","e","d"," ","f","i","l","e","s",":"," ","1","2">>
LineInfected1 == <<"I","n","f","e","c","t","e","d"," ","f","i","l","e","s",":"," ","1">>
LineSummary == <<"S","C","A","N"," ","S","U","M","M","A","R","Y">>

\* the lines generic engine outputs are built from
LinePool == {LineOk, LineFound, LineExcluded, LineScanned0}

\* the engine output of the specification's scenario (spec.md, section 8)
Scenario ==
    <<LineScanned10, LineOk, LineFound, LineInfected1, LineSummary,
      LineScanned12, LineInfected1>>

\* the final result the scenario is specified to give
ScenarioResult == [scanned |-> 12, infected |-> 1, threats |-> <<LineFound>>]

\* the engine outputs of the output specification
Scripts ==
    {Scenario} \cup UNION {[1..n -> LinePool] : n \in 0..MaxLines}

\* further lines: summary lines with a malformed, negative or missing
\* value, file lines of each file branch, a path too short to count, and a
\* line of white space
LineScannedBad == <<"S","c","a","n","n","e","d"," ","f","i","l","e","s",":"," ","x"," ","O","K">>
LineScannedNeg == <<"S","c","a","n","n","e","d"," ","f","i","l","e","s",":"," ","-","1">>
LineScannedNone == <<"S","c","a","n","n","e","d"," ","f","i","l","e","s",":">>
LineInfectedBad == <<"I","n","f","e","c","t","e","d"," ","f","i","l","e","s",":"," ","n","o","n","e">>
LineInfected0 == <<"I","n","f","e","c","t","e","d"," ","f","i","l","e","s",":"," ","0">>
LinePath == <<"/","a","/","b","/","c","/","d","/","e","/","f">>
LineShortPath == <<"/","a","/","b">>
LineEmptyFile == <<"/","a","/","b","/","e",":"," ","E","m","p","t","y"," ","f","i","l","e">>
LineSpOk == <<"/","a","/","b","/","f",":"," ","x"," ","O","K">>
LineBlank == <<" ">>
\* a summary line whose total is not a multiple of 100, and lines with the
\* infected marker that also carry a summary label with a
\* well-formed value, or end with the marker of a clean file
LineScanned150 == <<"S","c","a","n","n","e","d"," ","f","i","l","e","s",":"," ","1","5","0">>
LineScannedFound == <<"S","c","a","n","n","e","d"," ","f","i","l","e","s",":"," ","3",":"," ","x"," ","F","O","U","N","D">>
LineFoundOk == <<"/","a"," ","F","O","U","N","D",":"," ","O","K">>

\* the lines the outputs of the parser specification are built from
ParsePool ==
    LinePool \cup
    {LineScannedBad, LineScannedNeg, LineScannedNone, LineInfectedBad,
     LineInfected0, LinePath, LineShortPath, LineEmptyFile, LineSpOk,
     LineBlank, LineSummary, LineScannedFound, LineFoundOk, LineScanned150}

\* an output in which a summary line follows each file line
Relapse == <<LineOk, LineScanned0, LineOk, LineScanned0>>

\* the engine outputs of the parser specification
ParseScripts ==
    {Scenario, Relapse} \cup UNION {[1..n -> ParsePool] : n \in 0..MaxLines}

\* a clean file and an infected file, with short names
BriefOk == <<"/","a",":"," ","O","K">>
BriefFound == <<"x",":"," ","V"," ","F","O","U","N","D">>

\* the engine outputs of the sessions that may mount partitions
BriefScripts == UNION {[1..n -> {BriefOk, BriefFound}] : n \in 0..MaxBrief}

(***************************************************************************)
(* State                                                                   *)
(***************************************************************************)
VARIABLES
    is_scanning,          \* self.is_scanning, the cooperative flag
    start_button,         \* state of the Start control
    stop_button,          \* state of the Stop control
    status_var,           \* self.status_var, the published session state
    scan_mode_var,        \* self.scan_mode_var
    remove_infected_var,  \* self.remove_infected_var
    scan_results,         \* self.scan_results
    dialog,               \* the modal dialog a handler of the main thread waits in;
                          \* "destroyed" and "exited" once the window is gone
    local,                \* per worker thread: position and local variables
    process,              \* per worker thread: the engine process it launched
    dirs,                 \* mount-point directories present under /tmp
    mounted,              \* mount points with a filesystem mounted on them
    now,                  \* int(time.time())
    faults,               \* unmount failures injected so far
    hist,                 \* history of the current session (observation only)
    scanned_var,          \* self.scanned_var: the number of files on display
    updater               \* the ClamAVUpdater of update_clamav_db.py and its files

vars ==
    <<is_scanning, start_button, stop_button, status_var, scan_mode_var,
      remove_infected_var, scan_results, dialog, local, process, dirs,
      mounted, now, faults, hist, scanned_var, updater>>

Workers == 1..MaxWorkers

\* the live root filesystem "/" as a scan target
RootTarget == [part |-> 0, ts |-> 0]

\* f"/tmp/virus_scan_{partition.replace('/', '_')}_{int(time.time())}"
MountPointName(partition, time) == [part |-> partition, ts |-> time]

IdleLocal ==
    [pc |-> "idle", cmd_remove |-> FALSE, mode |-> "none",
     partitions |-> <<>>, idx |-> 1, scan_targets |-> <<>>,
     mount_points |-> <<>>, cidx |-> 1, exc |-> FALSE]

NoProcess ==
    [state |-> "none", script |-> <<>>, written |-> 0, nread |-> 0,
     remove |-> FALSE, options |-> {}, targets |-> <<>>]

NoHistory ==
    [session |-> 0, acc_mode |-> "none", acc_remove |-> FALSE,
     dirs_before |-> {}, mounts |-> {}, unmounts |-> {}, unmount_ok |-> {},
     stop_calls |-> 0, published |-> {}, cancel_phase |-> "none",
     live |-> <<>>, drained |-> FALSE, script |-> <<>>, fed |-> <<>>,
     attempted |-> <<>>, raised |-> "none", errors |-> 0, trail |-> <<>>,
     stale |-> FALSE, lost |-> {}, rmdir_tried |-> {}, cancel_at |-> 0,
     launches |-> 0, req_db |-> "OK", req_warned |-> FALSE,
     rejected |-> "none", acc_db |-> "OK", acc_warned |-> FALSE,
     exit_confirmed |-> FALSE]

\* the variables of the scanner
gui ==
    <<is_scanning, start_button, stop_button, status_var, scan_mode_var,
      remove_infected_var, scan_results, dialog, local, process, dirs,
      mounted, now, faults, hist, scanned_var>>

\* update_clamav_db.py lines 29-33: the database files, in the order of the
\* dictionary
CLAMAV_DB_URLS == <<"main.cvd", "daily.cld", "bytecode.cld">>

\* update_clamav_db.py lines 36-41
MIRROR_URLS ==
    <<"database.clamav.net", "db.local.clamav.net", "db.us.clamav.net",
      "db.eu.clamav.net">>

\* download_file(self, url, filename, max_retries=3)
max_retries == 3

DbFiles == {CLAMAV_DB_URLS[i] : i \in 1..Len(CLAMAV_DB_URLS)}

\* The updater before main() runs it.  target, backup and temp are the
\* database files in db_target_dir, in its backup directory and in
\* temp_dir.  before, completed, calls, counted, stage and rmtree_failed
\* record the run for the properties and are read by no action.
NoUpdater ==
    [pc |-> "idle",
     target |-> [f \in DbFiles |-> "none"],
     backup |-> [f \in DbFiles |-> "none"],
     temp_dir |-> "none",
     temp |-> [f \in DbFiles |-> "absent"],
     file |-> 1, url |-> 1, attempt |-> 0,
     success_count |-> 0,
     installed_files |-> <<>>,
     result |-> "none",
     before |-> [f \in DbFiles |-> "none"],
     completed |-> {},
     calls |-> <<>>,
     counted |-> [f \in DbFiles |-> 0],
     stage |-> "none",
     rmtree_failed |-> FALSE]

\* __init__ (lines 26-39) and create_widgets (lines 274-300)
Init ==
    /\ is_scanning = FALSE
    /\ start_button = "normal"
    /\ stop_button = "disabled"
    /\ status_var = "Ready"
    /\ scan_mode_var = "quick"
    /\ remove_infected_var = FALSE
    /\ scan_results = EmptyResults
    /\ dialog = "none"
    /\ local = [w \in Workers |-> IdleLocal]
    /\ process = [w \in Workers |-> NoProcess]
    /\ dirs = {}
    /\ mounted = {}
    /\ now = 0
    /\ faults = 0
    /\ hist = NoHistory
    /\ scanned_var = 0
    /\ updater = NoUpdater

Active(w) == local[w].pc # "idle"

\* a messagebox opened by a worker thread is waiting for the user
WorkerDialogOpen == \E w \in Workers : local[w].pc \in {"result_dialog", "error_dialog"}

\* no modal dialog holds the grab: the widgets of the main window react
NoModal == dialog = "none" /\ ~WorkerDialogOpen

(***************************************************************************)
(* The user working the option widgets, and the clock                      *)
(***************************************************************************)
\* The options are read by start_scan and once by each worker (lines 600
\* and 618).  A change made after the worker has read them shows only when
\* the next scan is started, so it is taken then.
OptionsObservable == \A w \in Workers : local[w].pc \in {"idle", "begin"}

\* The clock is read where a mount point is named (line 631): time that
\* passes elsewhere is taken when a worker is about to mount.
ClockObservable == \E w \in Workers : local[w].pc \in {"begin", "mount"}

SetScanMode(m) ==
    /\ NoModal
    /\ OptionsObservable
    /\ scan_mode_var # m
    /\ scan_mode_var' = m
    /\ UNCHANGED <<is_scanning, start_button, stop_button, status_var,
                   remove_infected_var, scan_results, dialog, local, process,
                   dirs, mounted, now, faults, hist,
                   scanned_var, updater>>

SetRemoveInfected(b) ==
    /\ NoModal
    /\ OptionsObservable
    /\ remove_infected_var # b
    /\ remove_infected_var' = b
    /\ UNCHANGED <<is_scanning, start_button, stop_button, status_var,
                   scan_mode_var, scan_results, dialog, local, process,
                   dirs, mounted, now, faults, hist,
                   scanned_var, updater>>

Tick ==
    /\ ClockObservable
    /\ now < MaxTime
    /\ now' = now + 1
    /\ UNCHANGED <<is_scanning, start_button, stop_button, status_var,
                   scan_mode_var, remove_infected_var, scan_results, dialog,
                   local, process, dirs, mounted, faults, hist,
                   scanned_var, updater>>

(***************************************************************************)
(* start_scan (lines 460-550)                                              *)
(***************************************************************************)
\* the thread slot a new worker thread gets
FreeWorker == CHOOSE w \in Workers : ~Active(w) /\ \A v \in Workers : ~Active(v) => w <= v

\* mutant: the Start control is left enabled
StartButtonLeftEnabled == "normal"

\* the state the Start control is given when a scan is accepted (line 538)
StartButtonWhileScanning == "disabled"

\* mutant: the result of the earlier session is kept
ResultsKept(r) == r

\* line 544: self.scan_results = {"scanned": 0, "infected": 0, "threats": []}
ResetResults(r) == EmptyResults

\* lines 536-550: the session is accepted and its worker thread started
AcceptScan ==
    /\ \E w \in Workers : ~Active(w)
    /\ is_scanning' = TRUE
    /\ start_button' = StartButtonWhileScanning
    /\ stop_button' = "normal"
    /\ scan_results' = ResetResults(scan_results)
    /\ scanned_var' = 0
    /\ local' = [local EXCEPT ![FreeWorker] = [IdleLocal EXCEPT !.pc = "begin"]]
    /\ hist' = [NoHistory EXCEPT !.session = hist.session + 1,
                                 !.acc_mode = scan_mode_var,
                                 !.acc_remove = remove_infected_var,
                                 !.dirs_before = dirs,
                                 !.stale = scan_results # EmptyResults,
                                 !.acc_db = hist.req_db,
                                 !.acc_warned = hist.req_warned]
    /\ UNCHANGED <<status_var, scan_mode_var, remove_infected_var, process,
                   dirs, mounted, now, faults>>

\* the Start control is pressed (lines 460-525): the confirmation is asked
StartClick ==
    /\ NoModal
    /\ start_button = "normal"
    /\ hist.session < MaxSessions
    /\ dialog' = "confirm"
    /\ UNCHANGED <<is_scanning, start_button, stop_button, status_var,
                   scan_mode_var, remove_infected_var, scan_results, local,
                   process, dirs, mounted, now, faults, hist,
                   scanned_var, updater>>

\* get_database_info()['status'] (line 469)
DbStatuses == {"OK", "MISSING", "OUTDATED"}

\* mutant: only a missing database is warned about
DbWarningOnlyMissing(db) == db = "MISSING"

\* lines 470 and 480: the statuses start_scan asks the user about
DbWarningNeeded(db) == db \in {"MISSING", "OUTDATED"}

\* lines 489-494 and 502-525: the selected device is looked up in
\* self.disks; the confirmation is asked when it is there
AfterLookup(listed) == IF listed THEN "confirm" ELSE "disk_error"

\* the Start control is pressed (lines 460-525).  selected: a device is
\* selected; db: the status of the virus database; listed: the selected
\* device is in self.disks.
StartRequest(selected, db, listed) ==
    /\ NoModal
    /\ start_button = "normal"
    /\ hist.session < MaxSessions
    /\ dialog' = IF ~selected THEN "select_warning"
                 ELSE IF DbWarningNeeded(db)
                 THEN (IF db = "MISSING" THEN "db_missing" ELSE "db_outdated")
                 ELSE AfterLookup(listed)
    /\ hist' = [hist EXCEPT !.req_db = db, !.req_warned = FALSE,
                            !.rejected = "none"]
    /\ UNCHANGED <<is_scanning, start_button, stop_button, status_var,
                   scan_mode_var, remove_infected_var, scan_results, local,
                   process, dirs, mounted, now, faults, scanned_var, updater>>

\* "Selection Required" or "Could not find disk information!" is closed
\* (lines 465-466 and 493-494): start_scan returns
AckDialog ==
    /\ dialog \in {"select_warning", "disk_error"}
    /\ ~WorkerDialogOpen
    /\ dialog' = "none"
    /\ hist' = [hist EXCEPT !.rejected = dialog]
    /\ UNCHANGED <<is_scanning, start_button, stop_button, status_var,
                   scan_mode_var, remove_infected_var, scan_results, local,
                   process, dirs, mounted, now, faults, scanned_var, updater>>

\* "Database Missing" or "Database Outdated" answered (lines 471-487)
DbAnswer(yes, listed) ==
    /\ dialog \in {"db_missing", "db_outdated"}
    /\ ~WorkerDialogOpen
    /\ dialog' = IF yes THEN AfterLookup(listed) ELSE "none"
    /\ hist' = IF yes THEN [hist EXCEPT !.req_warned = TRUE]
               ELSE [hist EXCEPT !.rejected = "db_declined"]
    /\ UNCHANGED <<is_scanning, start_button, stop_button, status_var,
                   scan_mode_var, remove_infected_var, scan_results, local,
                   process, dirs, mounted, now, faults, scanned_var, updater>>

\* a press on the Start control while it is disabled invokes nothing
StartClickDisabled ==
    /\ NoModal
    /\ start_button = "disabled"
    /\ UNCHANGED vars

\* "Confirm Virus Scan" answered (lines 525-534)
ConfirmAnswer(yes) ==
    /\ dialog = "confirm"
    /\ ~WorkerDialogOpen
    /\ IF ~yes
       THEN /\ dialog' = "none"
            /\ UNCHANGED <<is_scanning, start_button, stop_button,
                           scan_results, local, hist, scanned_var>>
       ELSE IF remove_infected_var
       THEN /\ dialog' = "final"
            /\ UNCHANGED <<is_scanning, start_button, stop_button,
                           scan_results, local, hist, scanned_var>>
       ELSE /\ dialog' = "none"
            /\ AcceptScan
    /\ UNCHANGED <<status_var, scan_mode_var, remove_infected_var, process,
                   dirs, mounted, now, faults, updater>>

\* "FINAL WARNING" answered (lines 529-534)
FinalAnswer(yes) ==
    /\ dialog = "final"
    /\ ~WorkerDialogOpen
    /\ dialog' = "none"
    /\ IF yes
       THEN AcceptScan
       ELSE UNCHANGED <<is_scanning, start_button, stop_button, scan_results,
                        local, hist, scanned_var>>
    /\ UNCHANGED <<status_var, scan_mode_var, remove_infected_var, process,
                   dirs, mounted, now, faults, updater>>

(***************************************************************************)
(* stop_scan (lines 865-872)                                               *)
(***************************************************************************)
\* the Stop control is pressed while a scan is flagged active
StopClick ==
    /\ NoModal
    /\ stop_button = "normal"
    /\ is_scanning
    /\ dialog' = "stop"
    /\ UNCHANGED <<is_scanning, start_button, stop_button, status_var,
                   scan_mode_var, remove_infected_var, scan_results, local,
                   process, dirs, mounted, now, faults, hist,
                   scanned_var, updater>>

\* where the session is when the cancellation flag is set
CancelPhase ==
    IF \E w \in Workers : process[w].state = "running" THEN "scanning"
    ELSE IF \E w \in Workers : local[w].pc \in {"begin", "mount", "launch"} THEN "mounting"
    ELSE "late"

\* "Confirm Stop" answered
StopAnswer(yes) ==
    /\ dialog = "stop"
    /\ ~WorkerDialogOpen
    /\ dialog' = "none"
    /\ IF yes
       THEN /\ is_scanning' = FALSE
            /\ status_var' = "Stopped"
            /\ hist' = [hist EXCEPT
                          !.published = @ \cup {"Stopped"},
                          !.cancel_phase = IF @ = "none" THEN CancelPhase ELSE @,
                          !.cancel_at = IF hist.cancel_phase = "none"
                                        THEN Len(hist.attempted) ELSE @]
       ELSE UNCHANGED <<is_scanning, status_var, hist>>
    /\ UNCHANGED <<start_button, stop_button, scan_mode_var,
                   remove_infected_var, scan_results, local, process, dirs,
                   mounted, now, faults,
                   scanned_var, updater>>

(***************************************************************************)
(* exit_application (lines 879-889) and main (main.py lines 17-22)         *)
(***************************************************************************)
\* lines 881-885 and 888: with a scan flagged active the user is asked
\* first, otherwise the window is destroyed at once
ExitBranch(scanning) == IF scanning THEN "exit" ELSE "destroyed"

\* the Exit control is pressed or the window is closed
ExitClick ==
    /\ NoModal
    /\ dialog' = ExitBranch(is_scanning)
    /\ UNCHANGED <<is_scanning, start_button, stop_button, status_var,
                   scan_mode_var, remove_infected_var, scan_results, local,
                   process, dirs, mounted, now, faults, hist,
                   scanned_var, updater>>

\* "Scan in Progress" answered: on yes the flag is cleared and the window
\* destroyed (lines 885-888); nothing waits for the worker thread
ExitAnswer(yes) ==
    /\ dialog = "exit"
    /\ ~WorkerDialogOpen
    /\ IF yes
       THEN /\ is_scanning' = FALSE
            /\ dialog' = "destroyed"
            /\ hist' = [hist EXCEPT !.exit_confirmed = TRUE]
       ELSE /\ dialog' = "none"
            /\ UNCHANGED <<is_scanning, hist>>
    /\ UNCHANGED <<start_button, stop_button, status_var, scan_mode_var,
                   remove_infected_var, scan_results, local, process, dirs,
                   mounted, now, faults, scanned_var, updater>>

\* main.py line 22: mainloop returns once the window is destroyed, main
\* returns and the interpreter ends.  The worker is a daemon thread (line
\* 549) that nothing joins: it ends where it is.  The engine is a child
\* process of its own and keeps running.
ProgramEnd ==
    /\ dialog = "destroyed"
    /\ dialog' = "exited"
    /\ UNCHANGED <<is_scanning, start_button, stop_button, status_var,
                   scan_mode_var, remove_infected_var, scan_results, local,
                   process, dirs, mounted, now, faults, hist,
                   scanned_var, updater>>

\* the interpreter has not ended: its threads take steps
InterpreterAlive == dialog # "exited"

(***************************************************************************)
(* perform_virus_scan (lines 591-751), run by the worker thread            *)
(***************************************************************************)
\* get_disk_partitions (lines 157-185): the partitions of the device in
\* lsblk order; empty when there are none or the query fails
PartitionLists == {[i \in 1..n |-> i] : n \in 0..MaxParts}

\* a device on which no partition is found
NoPartitions == {<<>>}

\* mutant: the partitions are looked up in either mode
ResolveAlways(mode, found) == found

\* lines 618-620 and 670-672: the partitions are looked up in deep mode
\* only; the quick branch has none to mount
ResolvePartitions(mode, found) == IF mode = "deep" THEN found ELSE <<>>

\* lines 593-627 and 670-673: the command is built from the removal option,
\* the mode is read and the partitions are resolved
PrepareScan(w, lists) ==
    /\ local[w].pc = "begin"
    /\ status_var' = "Scanning"
    /\ \E found \in lists :
          LET parts == ResolvePartitions(scan_mode_var, found)
              deep == parts # <<>>
          IN  /\ local' = [local EXCEPT
                    ![w].cmd_remove = remove_infected_var,
                    ![w].mode = scan_mode_var,
                    ![w].partitions = parts,
                    ![w].scan_targets = IF deep THEN <<>> ELSE <<RootTarget>>,
                    ![w].pc = IF deep THEN "mount" ELSE "launch"]
    /\ UNCHANGED <<is_scanning, start_button, stop_button, scan_mode_var,
                   remove_infected_var, scan_results, dialog, process, dirs,
                   mounted, now, faults, hist,
                   scanned_var, updater>>

MountOutcomes == {"mounted", "failed", "timeout", "error"}

\* mutant: no fallback to the root filesystem
TargetsWithoutFallback(targets) == targets

\* lines 667-669: the targets after the last mount attempt
TargetsAfterMounting(targets) ==
    IF targets = <<>> THEN <<RootTarget>> ELSE targets

\* mutant: the first failed mount ends the loop
MountLoopEndsOnFailure(idx, partitions, outcome) ==
    idx = Len(partitions) \/ outcome # "mounted"

\* line 629: the for loop ends after the last partition; the handlers of
\* lines 646-665 leave it running
MountLoopEnds(idx, partitions, outcome) == idx = Len(partitions)

\* mutant: the directory of a failed mount is left in place
DirectoryLeft(present, busy, mp) == present \cup {mp}

\* lines 649-652, 656-659, 662-665: os.rmdir after a failed mount removes
\* the directory, unless a filesystem is mounted on it (the error is
\* passed over)
RmdirAfterFailure(present, busy, mp) ==
    IF mp \in busy THEN present \cup {mp} ELSE present \ {mp}

\* lines 629-669: one turn of the mount loop
MountPartition(w, outcome) ==
    LET me == local[w]
        mp == MountPointName(me.partitions[me.idx], now)
        last == MountLoopEnds(me.idx, me.partitions, outcome)
        targets == IF outcome = "mounted" THEN Append(me.scan_targets, mp)
                   ELSE me.scan_targets
    IN  /\ me.pc = "mount"
        /\ IF outcome = "mounted"
           THEN /\ dirs' = dirs \cup {mp}
                /\ mounted' = mounted \cup {mp}
                /\ hist' = [hist EXCEPT
                      !.mounts = @ \cup {mp},
                      !.attempted = Append(@, me.partitions[me.idx])]
           ELSE \* os.rmdir removes the directory unless something is mounted on it
                /\ dirs' = RmdirAfterFailure(dirs, mounted, mp)
                /\ hist' = [hist EXCEPT
                      !.attempted = Append(@, me.partitions[me.idx])]
                /\ UNCHANGED mounted
        /\ local' = [local EXCEPT
              ![w].mount_points = IF outcome = "mounted" THEN Append(@, mp) ELSE @,
              ![w].scan_targets = IF last THEN TargetsAfterMounting(targets) ELSE targets,
              ![w].idx = @ + 1,
              ![w].pc = IF last THEN "launch" ELSE "mount"]
        /\ UNCHANGED <<is_scanning, start_button, stop_button, status_var,
                       scan_mode_var, remove_infected_var, scan_results,
                       dialog, process, now, faults,
                   scanned_var, updater>>

\* mutant: the exception is dropped
Swallowed(raised) == FALSE

\* lines 731-732: an exception of the try block is raised again, wrapped
Reraised(raised) == raised

\* lines 603-608: the options every command carries
EngineOptions == {"--recursive", "--verbose", "--stdout", "--log"}

\* mutant: --remove is passed whatever the option says
CommandAlwaysRemoving(remove, targets) ==
    [remove |-> TRUE, options |-> EngineOptions, targets |-> targets]

\* lines 597-608 and 676: the clamscan command
Command(remove, targets) ==
    [remove |-> remove, options |-> EngineOptions, targets |-> targets]

\* lines 675-683: subprocess.Popen; when it raises, the handler of line 731
\* re-raises and the finally clause runs
LaunchEngine(w, started, scripts) ==
    /\ local[w].pc = "launch"
    /\ IF started
       THEN \E script \in scripts :
              LET cmd == Command(local[w].cmd_remove, local[w].scan_targets)
              IN
              /\ process' = [process EXCEPT ![w] =
                    [state |-> "running", script |-> script, written |-> 0,
                     nread |-> 0, remove |-> cmd.remove,
                     options |-> cmd.options, targets |-> cmd.targets]]
              /\ hist' = [hist EXCEPT !.script = script, !.launches = @ + 1]
              /\ local' = [local EXCEPT ![w].pc = "loop"]
       ELSE /\ local' = [local EXCEPT ![w].pc = "cleanup",
                                        ![w].exc = Reraised(TRUE)]
            /\ hist' = [hist EXCEPT !.raised = "launch", !.launches = @ + 1]
            /\ UNCHANGED process
    /\ UNCHANGED <<is_scanning, start_button, stop_button, status_var,
                   scan_mode_var, remove_infected_var, scan_results, dialog,
                   dirs, mounted, now, faults,
                   scanned_var, updater>>

\* the engine prints its next line
EngineWrite(w) ==
    /\ process[w].state = "running"
    /\ process[w].written < Len(process[w].script)
    /\ process' = [process EXCEPT ![w].written = @ + 1]
    /\ UNCHANGED <<is_scanning, start_button, stop_button, status_var,
                   scan_mode_var, remove_infected_var, scan_results, dialog,
                   local, dirs, mounted, now, faults, hist,
                   scanned_var, updater>>

\* the engine exits after its last line
EngineExit(w) ==
    /\ process[w].state = "running"
    /\ process[w].written = Len(process[w].script)
    /\ process' = [process EXCEPT ![w].state = "exited"]
    /\ UNCHANGED <<is_scanning, start_button, stop_button, status_var,
                   scan_mode_var, remove_infected_var, scan_results, dialog,
                   local, dirs, mounted, now, faults, hist,
                   scanned_var, updater>>

\* process.poll() is not None
Polled(w) == process[w].state # "running"

\* line 689: while process.poll() is None and self.is_scanning
LoopCondition(w) == ~Polled(w) /\ is_scanning

\* mutant: the flag is not looked at
DrainBranchIgnoringFlag(scanning, exited) == exited

\* line 711: if self.is_scanning and process.poll() is not None
DrainBranch(scanning, exited) == scanning /\ exited

\* line 689 holds: the worker calls process.stdout.readline()
EnterReadline(w) ==
    /\ local[w].pc = "loop"
    /\ LoopCondition(w)
    /\ local' = [local EXCEPT ![w].pc = "readline"]
    /\ UNCHANGED <<is_scanning, start_button, stop_button, status_var,
                   scan_mode_var, remove_infected_var, scan_results, dialog,
                   process, dirs, mounted, now, faults, hist,
                   scanned_var, updater>>

\* scan_results['scanned'] % 100 == 0
NotifyEvery == 100

\* lines 699-700: the display is updated when more than a second has
\* passed since the last update, or the count is a multiple of 100
Notify(elapsed, scanned) == elapsed \/ scanned % NotifyEvery = 0

\* lines 691-708: readline returns a line, or '' at end of file; it blocks
\* while the pipe is empty and the engine has not exited.  elapsed: more
\* than a second has passed since the display was last updated.
ReadLine(w, elapsed) ==
    LET p == process[w]
        output == p.script[p.nread + 1]
    IN  /\ local[w].pc = "readline"
        /\ IF p.nread < p.written
           THEN /\ scan_results' =
                      IF Strip(output) # <<>>
                      THEN parse_scan_output(scan_results, Strip(output))
                      ELSE scan_results
                /\ process' = [process EXCEPT ![w].nread = @ + 1]
                /\ hist' = [hist EXCEPT
                      !.fed = IF Strip(output) # <<>>
                              THEN Append(@, Strip(output)) ELSE @,
                      !.trail = IF Strip(output) # <<>>
                                THEN Append(@, scan_results') ELSE @]
                /\ scanned_var' =
                      IF Strip(output) # <<>> /\ Notify(elapsed, scan_results'.scanned)
                      THEN scan_results'.scanned
                      ELSE scanned_var
           ELSE /\ p.state # "running"
                /\ UNCHANGED <<scan_results, process, hist, scanned_var>>
        /\ local' = [local EXCEPT ![w].pc = "loop"]
        /\ UNCHANGED <<is_scanning, start_button, stop_button, status_var,
                       scan_mode_var, remove_infected_var, dialog, dirs,
                       mounted, now, faults, updater>>

\* mutant: the error of a read ends the scan
ReadErrorRaised(exc) == TRUE

\* lines 705-706: the handler of the loop body logs the error; no exception
\* is left pending
AfterReadError(exc) == exc

\* lines 690-708: readline raises on the next line of the pipe (bytes that
\* do not decode); the line is gone, the handler logs, and the loop goes on
ReadFails(w) ==
    LET p == process[w]
        pending == AfterReadError(local[w].exc)
    IN  /\ local[w].pc = "readline"
        /\ p.nread < p.written
        /\ faults < MaxFaults
        /\ faults' = faults + 1
        /\ process' = [process EXCEPT ![w].nread = @ + 1]
        /\ hist' = [hist EXCEPT !.lost = @ \cup {p.nread + 1}]
        /\ local' = [local EXCEPT ![w].exc = pending,
                                  ![w].pc = IF pending THEN "cleanup" ELSE "loop"]
        /\ UNCHANGED <<is_scanning, start_button, stop_button, status_var,
                       scan_mode_var, remove_infected_var, scan_results,
                       dialog, dirs, mounted, now,
                   scanned_var, updater>>

\* remaining_output.split('\n'), stripped, without the empty lines
NonEmptyLines(lines) == SelectSeq([i \in 1..Len(lines) |-> Strip(lines[i])],
                                  LAMBDA l : l # <<>>)

\* mutant: communicate returns the whole output again
BufferedFromStart(script, nread, written) == SubSeq(script, 1, written)

\* line 713: communicate returns what the engine wrote and readline has
\* not returned yet
Buffered(script, nread, written) == SubSeq(script, nread + 1, written)

\* lines 710-722: the loop has ended with the engine exited and the flag
\* set; the buffered output is parsed, unless communicate times out
DrainOutput(w, timedOut) ==
    LET p == process[w]
        remaining == NonEmptyLines(Buffered(p.script, p.nread, p.written))
    IN  /\ local[w].pc = "loop"
        /\ ~LoopCondition(w)
        /\ DrainBranch(is_scanning, Polled(w))
        /\ IF timedOut
           THEN /\ faults < MaxFaults
                /\ faults' = faults + 1
                /\ process' = [process EXCEPT ![w].state = "killed"]
                /\ UNCHANGED <<scan_results, hist>>
           ELSE /\ scan_results' = ParseAll(scan_results, remaining)
                /\ process' = [process EXCEPT ![w].nread = p.written]
                /\ hist' = [hist EXCEPT
                      !.live = <<scan_results.scanned, scan_results.infected, p.nread>>,
                      !.drained = TRUE,
                      !.fed = @ \o remaining,
                      !.trail = @ \o ParseTrail(scan_results, remaining)]
                /\ UNCHANGED faults
        /\ local' = [local EXCEPT ![w].pc = "cleanup"]
        /\ UNCHANGED <<is_scanning, start_button, stop_button, status_var,
                       scan_mode_var, remove_infected_var, dialog, dirs,
                       mounted, now,
                   scanned_var, updater>>

\* lines 711-722 and 731-732: the drain catches TimeoutExpired only; any
\* other exception of communicate leaves the try block and is raised again
DrainRaises(w) ==
    /\ local[w].pc = "loop"
    /\ ~LoopCondition(w)
    /\ DrainBranch(is_scanning, Polled(w))
    /\ faults < MaxFaults
    /\ faults' = faults + 1
    /\ local' = [local EXCEPT ![w].pc = "cleanup", ![w].exc = Reraised(TRUE)]
    /\ hist' = [hist EXCEPT !.raised = "finalizing"]
    /\ UNCHANGED <<is_scanning, start_button, stop_button, status_var,
                   scan_mode_var, remove_infected_var, scan_results, dialog,
                   process, dirs, mounted, now,
                   scanned_var, updater>>

\* lines 723-729: process.terminate(), process.wait(timeout=5), and
\* process.kill() when the wait times out
StopEngine(w, exitedInTime) ==
    /\ local[w].pc = "loop"
    /\ ~LoopCondition(w)
    /\ ~DrainBranch(is_scanning, Polled(w))
    /\ exitedInTime \/ process[w].state = "running"
    /\ process' = [process EXCEPT ![w].state =
          IF @ # "running" THEN @
          ELSE IF exitedInTime THEN "terminated" ELSE "killed"]
    /\ hist' = [hist EXCEPT !.stop_calls = @ + 1]
    /\ local' = [local EXCEPT ![w].pc = "cleanup"]
    /\ UNCHANGED <<is_scanning, start_button, stop_button, status_var,
                   scan_mode_var, remove_infected_var, scan_results, dialog,
                   dirs, mounted, now, faults,
                   scanned_var, updater>>

\* mutant: the cleanup is skipped when an exception is pending
CleanupTargetsUnlessRaised(mount_points, exc) ==
    IF exc THEN <<>> ELSE mount_points

\* line 736: the mount points the finally clause walks through
CleanupTargets(mount_points, exc) == mount_points

UnmountOutcomes == {"ok", "failed", "forced_ok", "forced_failed", "forced_timeout"}

\* umount, or umount -f after the timeout, has detached the filesystem
Detached(outcome) == outcome \in {"ok", "forced_ok"}

\* os.rmdir is reached (lines 741 and 747): not when umount -f times out,
\* which leaves the inner try block before line 747
RemovalAttempted(outcome) == outcome # "forced_timeout"

\* lines 736-751: one turn of the cleanup loop.  umount's status is not
\* looked at; os.rmdir raises on a directory that is still a mount point
\* and the handlers of lines 748-751 only log.
Unmount(w, outcome) ==
    LET me == local[w]
        mp == CleanupTargets(me.mount_points, me.exc)[me.cidx]
    IN  /\ me.pc = "cleanup"
        /\ me.cidx <= Len(CleanupTargets(me.mount_points, me.exc))
        /\ IF outcome = "ok"
           THEN UNCHANGED faults
           ELSE faults < MaxFaults /\ faults' = faults + 1
        /\ IF Detached(outcome)
           THEN /\ mounted' = mounted \ {mp}
                /\ dirs' = dirs \ {mp}
           ELSE UNCHANGED <<mounted, dirs>>
        /\ hist' = [hist EXCEPT
              !.unmounts = @ \cup {mp},
              !.unmount_ok = IF Detached(outcome) THEN @ \cup {mp} ELSE @,
              !.rmdir_tried = IF RemovalAttempted(outcome) THEN @ \cup {mp} ELSE @]
        /\ local' = [local EXCEPT ![w].cidx = @ + 1]
        /\ UNCHANGED <<is_scanning, start_button, stop_button, status_var,
                       scan_mode_var, remove_infected_var, scan_results,
                       dialog, process, now,
                   scanned_var, updater>>

(***************************************************************************)
(* scan_disk_thread (lines 552-589)                                        *)
(***************************************************************************)
\* lines 584-589: the finally clause; the thread ends
EndSession(w) ==
    /\ is_scanning' = FALSE
    /\ start_button' = "normal"
    /\ stop_button' = "disabled"
    /\ local' = [local EXCEPT ![w] = IdleLocal]
    /\ process' = [process EXCEPT ![w] = NoProcess]

\* perform_virus_scan returns or raises (lines 556-582)
FinishScan(w) ==
    LET me == local[w]
    IN  /\ me.pc = "cleanup"
        /\ me.cidx > Len(CleanupTargets(me.mount_points, me.exc))
        /\ IF me.exc
           THEN /\ status_var' = "Failed"
                /\ hist' = [hist EXCEPT !.published = @ \cup {"Failed"},
                                         !.errors = @ + 1]
                /\ local' = [local EXCEPT ![w].pc = "error_dialog"]
                /\ UNCHANGED <<is_scanning, start_button, stop_button, process>>
           ELSE IF is_scanning
           THEN /\ status_var' = "Completed"
                /\ hist' = [hist EXCEPT !.published = @ \cup {"Completed"}]
                /\ local' = [local EXCEPT ![w].pc = "result_dialog"]
                /\ UNCHANGED <<is_scanning, start_button, stop_button, process>>
           ELSE /\ EndSession(w)
                /\ UNCHANGED <<status_var, hist>>
        /\ UNCHANGED <<scan_mode_var, remove_infected_var, scan_results,
                       dialog, dirs, mounted, now, faults,
                   scanned_var, updater>>

\* the user closes the summary or error box the worker opened
DismissDialog(w) ==
    /\ local[w].pc \in {"result_dialog", "error_dialog"}
    /\ EndSession(w)
    /\ UNCHANGED <<status_var, scan_mode_var, remove_infected_var,
                   scan_results, dialog, dirs, mounted, now, faults, hist,
                   scanned_var, updater>>

(***************************************************************************)
(* update_clamav_db.py: ClamAVUpdater.update_database (lines 323-395)      *)
(***************************************************************************)
\* the database files found installed when the updater is run
ExistingSets == {{}, {"daily.cld"}, DbFiles}

\* an exception raised inside the try block at the given stage: the
\* handler of lines 390-392 logs it and returns False, then the finally
\* clause runs
AfterException(u, at) ==
    [u EXCEPT !.result = "False", !.stage = at, !.pc = "finally"]

\* main (lines 417-418): the updater is run on a stick that holds the
\* database files of existing, with or without the backup directory of an
\* earlier run
RunUpdater(existing, stale) ==
    /\ updater.pc = "idle"
    /\ updater' = [updater EXCEPT
          !.pc = "internet",
          !.target = [f \in DbFiles |-> IF f \in existing THEN "old" ELSE "none"],
          !.before = [f \in DbFiles |-> IF f \in existing THEN "old" ELSE "none"],
          !.backup = [f \in DbFiles |-> IF stale THEN "older" ELSE "none"]]
    /\ UNCHANGED gui

\* lines 327-328: check_internet_connection (lines 312-321)
CheckInternet(ok) ==
    /\ updater.pc = "internet"
    /\ updater' = IF ok THEN [updater EXCEPT !.pc = "detect"]
                  ELSE AfterException(updater, "internet")
    /\ UNCHANGED gui

\* lines 331-334: detect_usb_root returns a root, returns None, or raises
\* on a specified path that is no bootable root (line 59)
DetectUsbRoot(outcome) ==
    /\ updater.pc = "detect"
    /\ updater' = IF outcome = "found" THEN [updater EXCEPT !.pc = "setup"]
                  ELSE AfterException(updater, "usb_root")
    /\ UNCHANGED gui

\* lines 337-338: setup_directories (lines 131-146) creates the target and
\* the temporary directory, or os.makedirs / mkdtemp raises
SetupDirectories(ok) ==
    /\ updater.pc = "setup"
    /\ updater' = IF ok THEN [updater EXCEPT !.temp_dir = "exists", !.pc = "access"]
                  ELSE AfterException(updater, "setup")
    /\ UNCHANGED gui

\* lines 344-345: os.access(self.db_target_dir, os.W_OK)
CheckWritable(ok) ==
    /\ updater.pc = "access"
    /\ updater' = IF ok THEN [updater EXCEPT !.pc = "backup"]
                  ELSE AfterException(updater, "writable")
    /\ UNCHANGED gui

\* backup_existing_db lines 225-230: the backup directory of an earlier
\* run is removed and an empty one made
BackupStart(ok) ==
    /\ updater.pc = "backup"
    /\ updater' = IF ok
                  THEN [updater EXCEPT !.backup = [f \in DbFiles |-> "none"],
                                       !.file = 1, !.pc = "backup_file"]
                  ELSE AfterException(updater, "backup")
    /\ UNCHANGED gui

\* backup_existing_db lines 233-239: one turn of the loop; shutil.copy2
\* copies an installed file, or raises and leaves a cut copy
BackupFile(ok) ==
    LET u == updater
        f == CLAMAV_DB_URLS[u.file]
        last == u.file = Len(CLAMAV_DB_URLS)
    IN  /\ u.pc = "backup_file"
        /\ u.target[f] = "none" => ok
        /\ updater' =
              IF u.target[f] = "none"
              THEN [u EXCEPT !.file = IF last THEN 1 ELSE @ + 1,
                             !.pc = IF last THEN "download" ELSE @,
                             !.attempt = IF last THEN 1 ELSE @]
              ELSE IF ok
              THEN [u EXCEPT !.backup[f] = u.target[f],
                             !.file = IF last THEN 1 ELSE @ + 1,
                             !.pc = IF last THEN "download" ELSE @,
                             !.attempt = IF last THEN 1 ELSE @]
              ELSE AfterException([u EXCEPT !.backup[f] = "truncated"], "backup")
        /\ UNCHANGED gui

(***************************************************************************)
(* download_file (lines 148-199) and the download loop (lines 350-370)     *)
(***************************************************************************)
\* What the server does on one attempt.  connect: urlopen returns a
\* response; length: the response carries Content-Length; body: no byte is
\* sent ("none"), the transfer breaks before the first chunk ("cut0") or
\* after it ("cut"), or every byte arrives ("full").
Responses ==
    [connect : BOOLEAN, length : BOOLEAN, body : {"none", "cut0", "cut", "full"}]

\* One attempt (lines 153-183) on the temporary file.  open(temp_file,
\* 'wb') empties the file once urlopen has answered; each chunk is written
\* before the progress is printed; with Content-Length the format
\* specifier of line 177 raises ValueError after the first chunk.
DownloadAttempt(temp, resp) ==
    IF ~resp.connect THEN [temp |-> temp, ok |-> FALSE]
    ELSE IF resp.body = "none" THEN [temp |-> "empty", ok |-> TRUE]
    ELSE IF resp.body = "cut0" THEN [temp |-> "empty", ok |-> FALSE]
    ELSE IF resp.length \/ resp.body = "cut" THEN [temp |-> "partial", ok |-> FALSE]
    ELSE [temp |-> "complete", ok |-> TRUE]

\* mutant: one attempt too many
RetryOnceMore(ok, attempt) ==
    IF ok THEN "return"
    ELSE IF attempt <= max_retries THEN "retry"
    ELSE "raise"

\* lines 183, 187-191 and 194-197: after an attempt (counted from 1)
\* download_file returns the path, tries again, or raises
RetryOrRaise(ok, attempt) ==
    IF ok THEN "return"
    ELSE IF attempt < max_retries THEN "retry"
    ELSE "raise"

\* lines 355-370: where the loop goes when download_file has returned or
\* raised on the url-th address (1: the primary URL, then MIRROR_URLS[1:])
AfterCall(ok, url) ==
    IF ok THEN "next_file"
    ELSE IF url < Len(MIRROR_URLS) THEN "next_mirror"
    ELSE "next_file"

\* one attempt of download_file and what follows it in update_database
Attempt(resp) ==
    LET u == updater
        f == CLAMAV_DB_URLS[u.file]
        out == DownloadAttempt(u.temp[f], resp)
        step == RetryOrRaise(out.ok, u.attempt)
        ended == step # "retry"
        goes == AfterCall(step = "return", u.url)
        last == u.file = Len(CLAMAV_DB_URLS)
        call == [file |-> f, url |-> u.url, attempts |-> u.attempt,
                 ok |-> out.ok, result |-> step]
    IN  /\ u.pc = "download"
        /\ updater' = [u EXCEPT
              !.temp[f] = out.temp,
              !.success_count = IF step = "return" THEN @ + 1 ELSE @,
              !.counted[f] = IF step = "return" THEN @ + 1 ELSE @,
              !.completed = IF out.ok THEN @ \cup {f} ELSE @,
              !.calls = IF ended THEN Append(@, call) ELSE @,
              !.attempt = IF ended THEN 1 ELSE @ + 1,
              !.url = IF ~ended THEN @
                      ELSE IF goes = "next_mirror" THEN @ + 1 ELSE 1,
              !.file = IF ended /\ goes = "next_file"
                       THEN (IF last THEN 1 ELSE @ + 1) ELSE @,
              !.pc = IF ended /\ goes = "next_file" /\ last
                     THEN "downloaded" ELSE @]
        /\ UNCHANGED gui

\* lines 372-373
CheckDownloads ==
    /\ updater.pc = "downloaded"
    /\ updater' = IF updater.success_count = 0
                  THEN AfterException(updater, "downloads")
                  ELSE [updater EXCEPT !.pc = "install"]
    /\ UNCHANGED gui

(***************************************************************************)
(* install_database_files (lines 246-274), verify_file (lines 201-221)     *)
(***************************************************************************)
\* verify_file: a missing or empty file is refused; a file that starts
\* with the database header, as the first chunk of a download does, or
\* that is larger than 1000 bytes is accepted
verify_file(content) == content \in {"partial", "complete"}

\* lines 258-268: the copy is made and the permissions set ("ok"),
\* shutil.copy2 raises before it wrote ("copy_refused") or after it cut the
\* target ("copy_cut"), or os.chmod raises after the copy ("chmod_failed")
InstallOutcomes == {"ok", "copy_refused", "copy_cut", "chmod_failed"}

\* the target file after the try block of lines 258-268
Installed(target, temp, outcome) ==
    IF outcome = "copy_refused" THEN target
    ELSE IF outcome = "copy_cut" THEN "truncated"
    ELSE temp

\* lines 252-272: one turn of the install loop; lines 378-388 after the
\* last one
InstallFile(outcome) ==
    LET u == updater
        f == CLAMAV_DB_URLS[u.file]
        last == u.file = Len(CLAMAV_DB_URLS)
        copies == u.temp[f] # "absent" /\ verify_file(u.temp[f])
        files == IF copies /\ outcome = "ok"
                 THEN Append(u.installed_files, f) ELSE u.installed_files
        v == [u EXCEPT
                !.target[f] = IF copies THEN Installed(@, u.temp[f], outcome) ELSE @,
                !.installed_files = files,
                !.file = IF last THEN 1 ELSE @ + 1]
    IN  /\ u.pc = "install"
        /\ ~copies => outcome = "ok"
        /\ updater' =
              IF ~last THEN v
              ELSE IF files = <<>> THEN AfterException(v, "install")
              ELSE [v EXCEPT !.result = "True", !.stage = "success",
                             !.pc = "finally"]
        /\ UNCHANGED gui

\* mutant: the temporary directory is kept
KeepTemporary(temp_dir, ok) == temp_dir

\* cleanup (lines 303-310): shutil.rmtree removes the temporary directory
\* if there is one; when it raises, the handler logs a warning
RemoveTemporary(temp_dir, ok) ==
    IF temp_dir = "exists" /\ ok THEN "removed" ELSE temp_dir

\* lines 394-395: the finally clause; update_database returns
Cleanup(ok) ==
    /\ updater.pc = "finally"
    /\ updater.temp_dir # "exists" => ok
    /\ updater' = [updater EXCEPT
          !.temp_dir = RemoveTemporary(@, ok),
          !.temp = IF RemoveTemporary(updater.temp_dir, ok) = "removed"
                   THEN [f \in DbFiles |-> "absent"] ELSE @,
          !.rmtree_failed = updater.temp_dir = "exists" /\ ~ok,
          !.pc = "done"]
    /\ UNCHANGED gui

(***************************************************************************)
(* Specifications                                                          *)
(***************************************************************************)
\* the steps the worker thread takes by itself
WorkerNext(w) ==
    \/ PrepareScan(w, PartitionLists)
    \/ \E o \in MountOutcomes : MountPartition(w, o)
    \/ \E b \in BOOLEAN : LaunchEngine(w, b, BriefScripts)
    \/ EnterReadline(w)
    \/ ReadLine(w, FALSE)
    \/ \E b \in BOOLEAN : DrainOutput(w, b)
    \/ DrainRaises(w)
    \/ \E b \in BOOLEAN : StopEngine(w, b)
    \/ \E o \in UnmountOutcomes : Unmount(w, o)
    \/ FinishScan(w)

\* the steps of the user and of the engine
UserNext ==
    \/ \E m \in {"quick", "deep"} : SetScanMode(m)
    \/ \E b \in BOOLEAN : SetRemoveInfected(b)
    \/ StartClick
    \/ StartClickDisabled
    \/ \E b \in BOOLEAN : ConfirmAnswer(b)
    \/ \E b \in BOOLEAN : FinalAnswer(b)
    \/ StopClick
    \/ \E b \in BOOLEAN : StopAnswer(b)
    \/ \E w \in Workers : DismissDialog(w)

\* the handlers that run on the main (display) thread: the option
\* widgets, start_scan and stop_scan
DisplayNext ==
    \/ \E m \in {"quick", "deep"} : SetScanMode(m)
    \/ \E b \in BOOLEAN : SetRemoveInfected(b)
    \/ StartClick
    \/ StartClickDisabled
    \/ \E b \in BOOLEAN : ConfirmAnswer(b)
    \/ \E b \in BOOLEAN : FinalAnswer(b)
    \/ StopClick
    \/ \E b \in BOOLEAN : StopAnswer(b)

EngineNext ==
    \/ \E w \in Workers : EngineWrite(w)
    \/ \E w \in Workers : EngineExit(w)

\* Sessions on a device with up to MaxParts partitions, the engine printing
\* up to MaxBrief lines, faster than one display update a second
Next ==
    \/ UserNext
    \/ EngineNext
    \/ Tick
    \/ \E w \in Workers : PrepareScan(w, PartitionLists)
    \/ \E w \in Workers, o \in MountOutcomes : MountPartition(w, o)
    \/ \E w \in Workers, b \in BOOLEAN : LaunchEngine(w, b, BriefScripts)
    \/ \E w \in Workers : EnterReadline(w)
    \/ \E w \in Workers : ReadLine(w, FALSE)
    \/ \E w \in Workers, b \in BOOLEAN : DrainOutput(w, b)
    \/ \E w \in Workers : DrainRaises(w)
    \/ \E w \in Workers, b \in BOOLEAN : StopEngine(w, b)
    \/ \E w \in Workers, o \in UnmountOutcomes : Unmount(w, o)
    \/ \E w \in Workers : FinishScan(w)

Spec == Init /\ [][Next]_vars

\* Sessions on a device without partitions (the scan target is "/"), the
\* engine printing any output of Scripts, faster than one display update a
\* second
NextOutput ==
    \/ UserNext
    \/ EngineNext
    \/ \E w \in Workers : PrepareScan(w, NoPartitions)
    \/ \E w \in Workers, b \in BOOLEAN : LaunchEngine(w, b, Scripts)
    \/ \E w \in Workers : EnterReadline(w)
    \/ \E w \in Workers : ReadLine(w, FALSE)
    \/ \E w \in Workers : ReadFails(w)
    \/ \E w \in Workers, b \in BOOLEAN : DrainOutput(w, b)
    \/ \E w \in Workers : DrainRaises(w)
    \/ \E w \in Workers, b \in BOOLEAN : StopEngine(w, b)
    \/ \E w \in Workers : FinishScan(w)

SpecOutput == Init /\ [][NextOutput]_vars

\* the Start control is pressed for the first scan of the run
FirstStartClick == hist.session = 0 /\ StartClick

\* One session on a device without partitions, the engine printing any
\* output of ParseScripts, at any speed
NextParse ==
    \/ FirstStartClick
    \/ \E b \in BOOLEAN : ConfirmAnswer(b)
    \/ StopClick
    \/ \E b \in BOOLEAN : StopAnswer(b)
    \/ \E w \in Workers : DismissDialog(w)
    \/ EngineNext
    \/ \E w \in Workers : PrepareScan(w, NoPartitions)
    \/ \E w \in Workers, b \in BOOLEAN : LaunchEngine(w, b, ParseScripts)
    \/ \E w \in Workers : EnterReadline(w)
    \/ \E w \in Workers, late \in BOOLEAN : ReadLine(w, late)
    \/ \E w \in Workers, b \in BOOLEAN : DrainOutput(w, b)
    \/ \E w \in Workers : DrainRaises(w)
    \/ \E w \in Workers, b \in BOOLEAN : StopEngine(w, b)
    \/ \E w \in Workers : FinishScan(w)

SpecParse == Init /\ [][NextParse]_vars

\* the steps of start_scan that end or continue a request without
\* accepting it
StartNotAccepted ==
    \/ \E sel \in BOOLEAN, db \in DbStatuses, l \in BOOLEAN : StartRequest(sel, db, l)
    \/ AckDialog
    \/ \E b \in BOOLEAN, l \in BOOLEAN : DbAnswer(b, l)
    \/ ConfirmAnswer(FALSE)
    \/ remove_infected_var /\ ConfirmAnswer(TRUE)
    \/ FinalAnswer(FALSE)

\* Sessions started through every path of start_scan, on a device without
\* partitions, the engine printing up to MaxBrief lines
NextStart ==
    \/ \E sel \in BOOLEAN, db \in DbStatuses, l \in BOOLEAN : StartRequest(sel, db, l)
    \/ AckDialog
    \/ \E b \in BOOLEAN, l \in BOOLEAN : DbAnswer(b, l)
    \/ \E b \in BOOLEAN : SetRemoveInfected(b)
    \/ StartClickDisabled
    \/ \E b \in BOOLEAN : ConfirmAnswer(b)
    \/ \E b \in BOOLEAN : FinalAnswer(b)
    \/ \E w \in Workers : DismissDialog(w)
    \/ EngineNext
    \/ \E w \in Workers : PrepareScan(w, NoPartitions)
    \/ \E w \in Workers, b \in BOOLEAN : LaunchEngine(w, b, BriefScripts)
    \/ \E w \in Workers : EnterReadline(w)
    \/ \E w \in Workers : ReadLine(w, FALSE)
    \/ \E w \in Workers, b \in BOOLEAN : DrainOutput(w, b)
    \/ \E w \in Workers : FinishScan(w)

SpecStart == Init /\ [][NextStart]_vars

\* One session that the user may leave through exit_application, on a
\* device with up to MaxParts partitions, the engine printing up to
\* MaxBrief lines
NextExit ==
    \/ \E m \in {"quick", "deep"} : SetScanMode(m)
    \/ FirstStartClick
    \/ \E b \in BOOLEAN : ConfirmAnswer(b)
    \/ ExitClick
    \/ \E b \in BOOLEAN : ExitAnswer(b)
    \/ ProgramEnd
    \/ EngineNext
    \/ \E w \in Workers : InterpreterAlive /\ DismissDialog(w)
    \/ \E w \in Workers : InterpreterAlive /\ PrepareScan(w, PartitionLists)
    \/ \E w \in Workers, o \in MountOutcomes : InterpreterAlive /\ MountPartition(w, o)
    \/ \E w \in Workers, b \in BOOLEAN : InterpreterAlive /\ LaunchEngine(w, b, BriefScripts)
    \/ \E w \in Workers : InterpreterAlive /\ EnterReadline(w)
    \/ \E w \in Workers : InterpreterAlive /\ ReadLine(w, FALSE)
    \/ \E w \in Workers, b \in BOOLEAN : InterpreterAlive /\ DrainOutput(w, b)
    \/ \E w \in Workers, b \in BOOLEAN : InterpreterAlive /\ StopEngine(w, b)
    \/ \E w \in Workers, o \in UnmountOutcomes : InterpreterAlive /\ Unmount(w, o)
    \/ \E w \in Workers : InterpreterAlive /\ FinishScan(w)

SpecExit == Init /\ [][NextExit]_vars

\* One run of the database updater
NextUpdate ==
    \/ \E existing \in ExistingSets, stale \in BOOLEAN : RunUpdater(existing, stale)
    \/ \E ok \in BOOLEAN : CheckInternet(ok)
    \/ \E o \in {"found", "none", "invalid"} : DetectUsbRoot(o)
    \/ \E ok \in BOOLEAN : SetupDirectories(ok)
    \/ \E ok \in BOOLEAN : CheckWritable(ok)
    \/ \E ok \in BOOLEAN : BackupStart(ok)
    \/ \E ok \in BOOLEAN : BackupFile(ok)
    \/ \E resp \in Responses : Attempt(resp)
    \/ CheckDownloads
    \/ \E o \in InstallOutcomes : InstallFile(o)
    \/ \E ok \in BOOLEAN : Cleanup(ok)

SpecUpdate == Init /\ [][NextUpdate]_vars

\* One session, on a device with up to MaxParts partitions, the engine
\* printing up to MaxBrief lines
NextOnce ==
    \/ \E m \in {"quick", "deep"} : SetScanMode(m)
    \/ FirstStartClick
    \/ \E b \in BOOLEAN : ConfirmAnswer(b)
    \/ StopClick
    \/ \E b \in BOOLEAN : StopAnswer(b)
    \/ \E w \in Workers : DismissDialog(w)
    \/ EngineNext
    \/ \E w \in Workers : WorkerNext(w)

\* The worker thread is scheduled: a step it can take is eventually taken.
\* The user answers an open dialog.  Nothing is assumed of the engine.
FairSpec ==
    /\ Init /\ [][NextOnce]_vars
    /\ \A w \in Workers : WF_vars(WorkerNext(w))
    /\ \A w \in Workers : WF_vars(DismissDialog(w))
    /\ WF_vars(\E b \in BOOLEAN : ConfirmAnswer(b))
    /\ WF_vars(\E b \in BOOLEAN : StopAnswer(b))

(***************************************************************************)
(* Properties                                                              *)
(***************************************************************************)
\* the worker of the last session has run its finally clause (lines
\* 584-589): is_scanning is cleared and the Start control is enabled again
SessionOver == hist.session > 0 /\ \A w \in Workers : ~Active(w)

\* C1: when a session has ended, on whichever path, every mount point the
\* session mounted (every entry added to mount_points) has had its umount
\* run by the cleanup loop.
C1_EveryMountUnmounted ==
    SessionOver => hist.mounts \subseteq hist.unmounts

\* C1 witness: a session that mounted a partition ended as Failed.
C1_Witness ==
    /\ SessionOver
    /\ hist.mounts # {}
    /\ "Failed" \in hist.published

\* C2: after a session has ended, the mount-point directories on disk are
\* those that were there before it, whatever failure was injected.
C2_NoDirectoryLeft ==
    SessionOver => dirs = hist.dirs_before

\* C3: scan_results['threats'] never holds the same string twice.
C3_NoDuplicateThreats ==
    \A i, j \in 1..Len(scan_results.threats) :
        i # j => scan_results.threats[i] # scan_results.threats[j]

\* C4: the pass over the output buffered after the engine's exit leaves
\* neither counter below the value it had when the live read loop ended.
C4_DrainNeverDecreases ==
    hist.drained =>
        /\ scan_results.scanned >= hist.live[1]
        /\ scan_results.infected >= hist.live[2]

\* C5: a session whose engine printed the scenario's seven lines, all of
\* them handed to the parser, has the result filesScanned = 12,
\* threatsFound = 1, threatDescriptors = [the eicar line], wherever the
\* split between the live loop and the drain fell.
C5_ScenarioResult ==
    (hist.script = Scenario /\ hist.fed = Scenario) =>
        scan_results = ScenarioResult

\* C5 witness: the scenario was fed with three lines read live and four
\* read by the drain.
C5_Witness ==
    /\ hist.script = Scenario
    /\ hist.fed = Scenario
    /\ hist.drained
    /\ hist.live[3] = 3

\* C6: a session cancelled while its engine was running ends with the stop
\* procedure run exactly once, with Stopped as the only outcome published,
\* and with every mount point it mounted given its umount; where the umount
\* detached the filesystem the directory is gone.
C6_CancelWhileScanning ==
    (SessionOver /\ hist.cancel_phase = "scanning") =>
        /\ hist.stop_calls = 1
        /\ hist.published = {"Stopped"}
        /\ status_var = "Stopped"
        /\ hist.mounts \subseteq hist.unmounts
        /\ \A mp \in hist.unmount_ok : mp \notin dirs /\ mp \notin mounted

\* C6 witness: a deep session that mounted a partition was cancelled while
\* the engine was running, and has ended.
C6_Witness ==
    /\ SessionOver
    /\ hist.cancel_phase = "scanning"
    /\ hist.mounts # {}

\* C7: once the cancellation flag is set while the engine is running, the
\* session eventually ends, whatever the engine does.
C7_StopAlwaysReturns ==
    (hist.cancel_phase = "scanning") ~> SessionOver

\* C8: a session whose path is decided (the engine has exited, the
\* cancellation flag is set, or an exception is pending) eventually ends
\* and the controller is idle again.
C8_SessionReachesIdle ==
    (\E w \in Workers :
        /\ Active(w)
        /\ process[w].state = "exited" \/ ~is_scanning \/ local[w].exc)
    ~> (\A w \in Workers : ~Active(w))

\* C9: at most one worker thread is alive at any time.
C9_SingleSession ==
    Cardinality({w \in Workers : Active(w)}) <= 1

\* C9 witness: Start is pressed while a cancelled session is still in its
\* cleanup.
C9_Witness ==
    /\ \E w \in Workers : local[w].pc = "cleanup"
    /\ ~is_scanning
    /\ hist.cancel_phase # "none"
    /\ ENABLED StartClickDisabled

\* C10: the mode the worker mounts with and the removal flag it launches
\* the engine with are those of the moment start_scan accepted the scan.
C10_ConfigSnapshot ==
    \A w \in Workers :
        local[w].mode # "none" =>
            /\ local[w].mode = hist.acc_mode
            /\ local[w].cmd_remove = hist.acc_remove

\* the worker has left the mount stage (lines 618-673)
PastMounting(w) == local[w].pc \notin {"idle", "begin", "mount"}

\* C11: a deep session that found no partition, or mounted none of those
\* it found, goes on with "/" as its only target and launches the engine
\* with it; no exception is pending when the launch is attempted, and one
\* pending later was raised by the launch or after it.
C11_DeepFallback ==
    \A w \in Workers :
        (local[w].mode = "deep" /\ PastMounting(w) /\ local[w].mount_points = <<>>) =>
            /\ local[w].scan_targets = <<RootTarget>>
            /\ process[w].state # "none" => process[w].targets = <<RootTarget>>
            /\ local[w].pc = "launch" => ~local[w].exc
            /\ local[w].exc => hist.raised \in {"launch", "finalizing"}

\* C11 witness: every mount attempt of a deep session on a device with two
\* partitions failed, and the engine is running.
C11_Witness ==
    \E w \in Workers :
        /\ local[w].mode = "deep"
        /\ Len(hist.attempted) = 2
        /\ local[w].mount_points = <<>>
        /\ process[w].state = "running"

\* C12: the mount loop attempts the partitions in discovery order, one
\* attempt each, and has attempted all of them when it is left, whatever
\* the outcome of the earlier attempts.
C12_AllPartitionsAttempted ==
    \A w \in Workers :
        local[w].mode = "deep" =>
            /\ Len(hist.attempted) = local[w].idx - 1
            /\ \A i \in 1..Len(hist.attempted) :
                  /\ i <= Len(local[w].partitions)
                  /\ hist.attempted[i] = local[w].partitions[i]
            /\ PastMounting(w) => Len(hist.attempted) = Len(local[w].partitions)

\* C12 witness: the mount of the first partition failed and the second
\* partition was mounted.
C12_Witness ==
    \E w \in Workers :
        /\ hist.attempted = <<1, 2>>
        /\ Len(local[w].mount_points) = 1
        /\ local[w].mount_points[1].part = 2

\* C13: once an exception has left the try block of perform_virus_scan it
\* stays pending through the cleanup; the session then publishes Failed,
\* shows one error message, and has run umount on every mount point it
\* mounted.
C13_ExceptionEndsFailed ==
    hist.raised # "none" =>
        /\ \A w \in Workers : Active(w) => local[w].exc
        /\ hist.errors <= 1
        /\ \A w \in Workers : local[w].pc = "error_dialog" => status_var = "Failed"
        /\ (SessionOver \/ \E w \in Workers : local[w].pc = "error_dialog") =>
              /\ "Failed" \in hist.published
              /\ hist.errors = 1
              /\ hist.mounts \subseteq hist.unmounts

\* C13 witness: a session that mounted a partition ended after an
\* exception of the drain.
C13_Witness ==
    /\ SessionOver
    /\ hist.raised = "finalizing"
    /\ hist.mounts # {}

\* C14: a session publishes at most one of Completed, Stopped, Failed, and
\* exactly one by the time it has ended.
C14_SingleOutcome ==
    /\ Cardinality(hist.published) <= 1
    /\ SessionOver => Cardinality(hist.published) = 1

\* the result before the i-th line handed to the parser in this session
Before(i) == IF i = 1 THEN EmptyResults ELSE hist.trail[i - 1]

\* C15: a line with a summary label whose value is not an integer leaves
\* the result as it was before the line.
C15_MalformedSummaryIgnored ==
    \A i \in 1..Len(hist.fed) :
        MalformedSummary(hist.fed[i]) => hist.trail[i] = Before(i)

\* C16: a line counted as a scanned file adds exactly one to the scanned
\* counter and leaves the infected counter and the threats as they were,
\* whichever file branch it matched and however many it would match.
C16_FileOkCountsOnce ==
    \A i \in 1..Len(hist.fed) :
        FileOkLine(hist.fed[i]) =>
            hist.trail[i] = [Before(i) EXCEPT !.scanned = @ + 1]

\* C16 witness: a line matching the first two file branches and a bare
\* path matching the third have been counted.
C16_Witness ==
    /\ Len(hist.fed) = 2
    /\ hist.fed[1] = LineOk
    /\ hist.fed[2] = LinePath
    /\ scan_results.scanned = 2

\* C17: the scanned and the infected counter are never negative.
C17_CountersNonNegative ==
    /\ scan_results.scanned >= 0
    /\ scan_results.infected >= 0

\* the lines of this session at which the counter went down
Decreases(counter) ==
    {i \in 1..Len(hist.trail) : hist.trail[i][counter] < Before(i)[counter]}

\* C18: within a session each counter goes down at most once (the
\* overwrite by the engine's total at the end of the scan) and never goes
\* down at any other line.
C18_MonotonicButOnce ==
    \A counter \in {"scanned", "infected"} :
        Cardinality(Decreases(counter)) <= 1

C20_ResultOfThisSession ==
    hist.session > 0 => scan_results = ParseAll(EmptyResults, hist.fed)

\* C20 witness: the second session, started when the result of the first
\* was not zero, has processed a line.
C20_Witness ==
    /\ hist.session = 2
    /\ hist.stale
    /\ hist.fed # <<>>

\* the lines of the output that readline returned or communicate
\* delivered, without those lost to a read error
Kept(script, upto, lost) ==
    LET idx == {i \in 1..upto : i \notin lost}
        RECURSIVE Take(_)
        Take(i) == IF i > upto THEN <<>>
                   ELSE IF i \in idx THEN <<script[i]>> \o Take(i + 1)
                   ELSE Take(i + 1)
    IN  Take(1)

C22_QuickModeNoMounts ==
    \A w \in Workers :
        local[w].mode = "quick" =>
            /\ local[w].partitions = <<>>
            /\ local[w].mount_points = <<>>
            /\ local[w].scan_targets = <<RootTarget>>
            /\ hist.attempted = <<>>
            /\ hist.mounts = {}
            /\ hist.unmounts = {}
            /\ dirs = hist.dirs_before
            /\ process[w].state # "none" => process[w].targets = <<RootTarget>>

\* C22 witness: a quick session, run after a deep session that left a
\* directory behind, is reported completed.
C22_Witness ==
    \E w \in Workers :
        /\ local[w].mode = "quick"
        /\ local[w].pc = "result_dialog"
        /\ hist.session = 2
        /\ dirs # {}

\* the value int() gives for the summary line
SummaryNumber(line) == ParseInt(Strip(SplitColon(line)[2])).val

\* C23: each line has the effect of the first class it belongs to, in the
\* order infected marker, scanned summary, infected summary, file line,
\* nothing; a line with the infected marker counts as a threat whatever
\* else it matches, and no line changes both counters.
C23_ClassificationPriority ==
    \A i \in 1..Len(hist.fed) :
        LET line == hist.fed[i]
            b == Before(i)
            a == hist.trail[i]
        IN  /\ ~(a.scanned # b.scanned /\ a.infected # b.infected)
            /\ IF Contains(line, FOUND_MARK)
               THEN a = [b EXCEPT !.infected = @ + 1, !.threats = Append(@, line)]
               ELSE IF SummaryLine(line) /\ StartsWith(line, SCANNED_LABEL)
               THEN a = [b EXCEPT !.scanned = SummaryNumber(line)]
               ELSE IF SummaryLine(line)
               THEN a = [b EXCEPT !.infected = SummaryNumber(line)]
               ELSE IF FileOkLine(line)
               THEN a = [b EXCEPT !.scanned = @ + 1]
               ELSE a = b

\* C23 witness: a line with a scanned summary and the infected marker, and
\* a line with the infected marker that ends like a clean file, were both
\* recorded as threats.
C23_Witness ==
    /\ hist.fed = <<LineScannedFound, LineFoundOk>>
    /\ scan_results =
          [scanned |-> 0, infected |-> 2,
           threats |-> <<LineScannedFound, LineFoundOk>>]

\* C24: when a session has ended, every mount point it mounted has had
\* its umount run and the removal of its directory attempted, whatever the
\* outcome of the umount or of the forced umount; and a session in which
\* no exception was raised is not reported failed.
C24_UnmountAlwaysRemoves ==
    SessionOver =>
        /\ hist.mounts \subseteq hist.unmounts
        /\ hist.mounts \subseteq hist.rmdir_tried
        /\ hist.raised = "none" => "Failed" \notin hist.published

\* the elements of a sequence
Range(seq) == {seq[i] : i \in 1..Len(seq)}

\* C25: a turn of the mount loop that did not mount (mount_points is as it
\* was) leaves no directory it created, adds its mount point neither to
\* the scan targets nor to mount_points, and records no mount.
C25_FailedMountLeavesNothing ==
    [][\A w \in Workers :
         (/\ local[w].pc = "mount"
          /\ local'[w].idx = local[w].idx + 1
          /\ local'[w].mount_points = local[w].mount_points) =>
            LET mp == MountPointName(local[w].partitions[local[w].idx], now)
            IN  /\ mp \notin dirs => mp \notin dirs'
                /\ mounted' = mounted
                /\ mp \notin Range(local'[w].scan_targets)
                /\ mp \notin Range(local'[w].mount_points)
                /\ hist'.mounts = hist.mounts]_vars

\* C25 witness: the mount of the first of two partitions failed, nothing
\* is left of it, and the second partition is about to be tried.
C25_Witness ==
    \E w \in Workers :
        /\ local[w].pc = "mount"
        /\ Len(local[w].partitions) = 2
        /\ hist.attempted = <<1>>
        /\ local[w].mount_points = <<>>
        /\ local[w].scan_targets = <<>>
        /\ dirs = {}

\* C26: in a session cancelled before its engine was launched, no mount
\* is attempted after the cancellation and no engine is launched.
C26_CancelStopsMounting ==
    hist.cancel_phase = "mounting" =>
        /\ Len(hist.attempted) = hist.cancel_at
        /\ \A w \in Workers : process[w].state = "none"

\* C27: while a worker thread is alive, a step of the main thread leaves
\* the published status, the result and the two controls as they are; of
\* the shared variables it writes the cancellation flag alone.
C27_DisplayWritesOnlyFlag ==
    [][((\E w \in Workers : Active(w)) /\ DisplayNext) =>
         UNCHANGED <<status_var, scan_results, start_button, stop_button>>]_vars

\* C28: while the worker is in the live read loop, the scanned counter is
\* at most 100 ahead of the number last put on display.
C28_NotifiedEvery100 ==
    \A w \in Workers :
        local[w].pc \in {"loop", "readline"} =>
            scan_results.scanned - scanned_var <= NotifyEvery

\* C29: a session calls Popen at most once; the engine it started was
\* started after the last mount attempt, with --remove exactly when the
\* worker read the removal option as set, with the fixed options, and with
\* the mount points it mounted, in the order of the partitions, as targets,
\* or "/" alone when it mounted none; each target other than "/" is in
\* mount_points.
C29_EngineLaunchedOnce ==
    /\ hist.launches <= 1
    /\ \A w \in Workers :
          process[w].state # "none" =>
              LET me == local[w]
                  p == process[w]
              IN  /\ hist.launches = 1
                  /\ Len(hist.attempted) = Len(me.partitions)
                  /\ p.remove = me.cmd_remove
                  /\ p.options = EngineOptions
                  /\ p.targets = IF me.mount_points # <<>>
                                 THEN me.mount_points ELSE <<RootTarget>>
                  /\ \A i, j \in 1..Len(me.mount_points) :
                        i < j => me.mount_points[i].part < me.mount_points[j].part
                  /\ \A t \in Range(p.targets) :
                        t # RootTarget => t \in Range(me.mount_points) /\ t \in hist.mounts

\* C29 witness: the engine runs with --remove over the two mount points of
\* a deep session.
C29_Witness ==
    \E w \in Workers :
        /\ process[w].state = "running"
        /\ process[w].remove
        /\ Len(process[w].targets) = 2
        /\ process[w].targets[1].part = 1
        /\ process[w].targets[2].part = 2

\* C30: a step of start_scan that does not accept the scan (a warning or
\* error box shown or closed, a question asked or declined) leaves the flag,
\* the controls, the status, the result and the worker threads as they
\* are, and while start_scan is asking no scan is flagged and no worker is
\* alive; a session started with the database missing or outdated was
\* started after the user accepted the warning.
C30_RejectedStartChangesNothing ==
    /\ [](dialog \notin {"none", "stop"} =>
            ~is_scanning /\ \A w \in Workers : ~Active(w))
    /\ []((hist.session > 0 /\ hist.acc_db \in {"MISSING", "OUTDATED"})
             => hist.acc_warned)
    /\ [][StartNotAccepted =>
            /\ UNCHANGED <<is_scanning, start_button, stop_button, status_var,
                           scan_results, scanned_var, local, process>>
            /\ hist'.session = hist.session]_vars

\* C30 witness: a first request was declined at the database warning, and
\* a session was then started with an outdated database after the warning
\* was accepted.
C30_Witness ==
    /\ hist.session = 2
    /\ hist.acc_db = "OUTDATED"
    /\ hist.acc_warned
    /\ \E w \in Workers : Active(w)

\* C31: the name a turn of the mount loop derives for its partition is not
\* the name of a mount-point directory that already exists.
C31_MountNamesUnique ==
    [][\A w \in Workers, o \in MountOutcomes :
         MountPartition(w, o) =>
            MountPointName(local[w].partitions[local[w].idx], now) \notin dirs]_vars

\* C32: when the program has ended after the user confirmed the exit
\* during a session, the engine of the session is not running and every
\* mount the session made has had its unmount attempt.
C32_ExitCleansUp ==
    (dialog = "exited" /\ hist.exit_confirmed) =>
        /\ \A w \in Workers : process[w].state # "running"
        /\ hist.mounts \subseteq hist.unmounts

\* C33: an engine launched with --remove belongs to a session that was
\* accepted with removal enabled, that is through the FINAL WARNING (the
\* removal option cannot change while start_scan is asking, and with the
\* option set start_scan accepts only after that warning).
C33_RemoveOnlyIfConfirmed ==
    \A w \in Workers :
        (process[w].state # "none" /\ process[w].remove) => hist.acc_remove

\* C34: scan_results['threats'] never holds more entries than
\* scan_results['infected'] counts.
C34_ThreatsWithinInfected ==
    Len(scan_results.threats) <= scan_results.infected

\* C35: a database file the updater has installed is one whose download
\* completed in this run (download_file returned its path).
C35_InstalledWasDownloaded ==
    \A i \in 1..Len(updater.installed_files) :
        updater.installed_files[i] \in updater.completed

\* the number of times success_count was raised, over all database files
RECURSIVE Counted(_)
Counted(i) ==
    IF i = 0 THEN 0
    ELSE updater.counted[CLAMAV_DB_URLS[i]] + Counted(i - 1)

\* C36: a call of download_file makes at most max_retries attempts; it
\* ends with the path exactly when its last attempt succeeded, and it
\* raises only after max_retries failed attempts; no attempt is made for a
\* file after one succeeded for it; success_count is raised at most once
\* for a file; the addresses of a file are called in list order, each
\* after the one before it raised, and the first address of the next
\* file follows a call that returned or the last mirror.
C36_RetriesAndMirrors ==
    /\ updater.attempt <= max_retries
    /\ updater.pc = "download" =>
          CLAMAV_DB_URLS[updater.file] \notin updater.completed
    /\ \A f \in DbFiles : updater.counted[f] <= 1
    /\ updater.success_count = Counted(Len(CLAMAV_DB_URLS))
    /\ \A i \in 1..Len(updater.calls) :
          LET c == updater.calls[i]
          IN  /\ c.attempts <= max_retries
              /\ c.result = "return" <=> c.ok
              /\ c.result = "raise" => c.attempts = max_retries
              /\ c.url \in 1..Len(MIRROR_URLS)
              /\ c.url > 1 =>
                    /\ i > 1
                    /\ updater.calls[i - 1].file = c.file
                    /\ updater.calls[i - 1].url = c.url - 1
                    /\ updater.calls[i - 1].result = "raise"
              /\ (c.url = 1 /\ i > 1) =>
                    /\ updater.calls[i - 1].file # c.file
                    /\ \/ updater.calls[i - 1].result = "return"
                       \/ updater.calls[i - 1].url = Len(MIRROR_URLS)

\* C36 witness: the first file came at the second attempt on the third
\* address, after two addresses had failed three times each; every
\* address of the second file failed.
C36_Witness ==
    /\ updater.pc = "download"
    /\ updater.file = 3
    /\ Len(updater.calls) = 7
    /\ updater.calls[3] =
          [file |-> "main.cvd", url |-> 3, attempts |-> 2, ok |-> TRUE,
           result |-> "return"]
    /\ updater.calls[7] =
          [file |-> "daily.cld", url |-> 4, attempts |-> 3, ok |-> FALSE,
           result |-> "raise"]
    /\ updater.success_count = 1

\* C37 as stated: update_database returns True or False, the temporary
\* directory is gone when it returns, and it returns True exactly when a
\* database file was installed.
C37_AlwaysRemovesTemporary ==
    updater.pc = "done" =>
        /\ updater.result \in {"True", "False"}
        /\ updater.temp_dir # "exists"
        /\ updater.result = "True" <=> updater.installed_files # <<>>

\* C37, amended: update_database returns True or False; when it returns,
\* the temporary directory is gone unless shutil.rmtree failed on it; it
\* returns True exactly when a database file was installed.
C37_ReturnsAndCleans ==
    updater.pc = "done" =>
        /\ updater.result \in {"True", "False"}
        /\ updater.temp_dir = "exists" => updater.rmtree_failed
        /\ updater.result = "True" <=> updater.installed_files # <<>>

\* C37 witness: every download failed; update_database returned False and
\* the temporary directory, which held a cut file, is removed.
C37_Witness ==
    /\ updater.pc = "done"
    /\ updater.stage = "downloads"
    /\ updater.result = "False"
    /\ updater.temp_dir = "removed"
    /\ \E i \in 1..Len(updater.calls) : updater.calls[i].result = "raise"

\* C38: a database file that was installed before the run and no longer
\* holds what it held then has a copy of what it held in the backup
\* directory; and when update_database has returned False because every
\* download failed or nothing was installed, every database file that was
\* installed before the run holds what it held then.
C38_BackupBeforeOverwrite ==
    /\ \A f \in DbFiles :
          (updater.before[f] # "none" /\ updater.target[f] # updater.before[f])
             => updater.backup[f] = updater.before[f]
    /\ (updater.pc = "done" /\ updater.stage \in {"downloads", "install"})
          => \A f \in DbFiles :
                updater.before[f] # "none" => updater.target[f] = updater.before[f]

=============================================================================
